---------------------------- MODULE Spec2Model ----------------------------
(***************************************************************************)
(* A model of the treacle decision-tree crate.                             *)
(*                                                                         *)
(*   src/src/tree.rs          Decision, Node, Tree and the Tree::decide    *)
(*                            driver loop                                  *)
(*   src/src/tree/nodes.rs    BinaryNode, HashMapNode (MappingNode),       *)
(*                            PredicateListNode                            *)
(*   src/src/tree/deciders.rs BinaryDecider, PredicatedNodesDecider,       *)
(*                            ContainsDecider and the Container impls      *)
(*   src/src/error.rs         Error                                        *)
(*                                                                         *)
(* Values are owned Rust values.  Every node or decider that is ever       *)
(* constructed gets a slot in `heap`; `owned` holds the slots whose value  *)
(* is still a local of the building program (not yet moved into a parent   *)
(* or into a Tree).  Moving a value removes it from `owned`; only an owned *)
(* value can be mutated (the add_* methods take &mut self) or moved.       *)
(***************************************************************************)
EXTENDS Integers, Sequences, FiniteSets, TLC

VARIABLES
    kind,      \* the node type the program instantiates (static typing)
    heap,      \* Seq of node / decider values, indexed by slot
    owned,     \* slots still owned by a local variable of the builder
    calls,     \* history: per slot, the arguments of its constructor call
               \* (new) and of the add_* calls made on it, in order (adds)
    root,      \* slot owned by the Tree (or by the root Decision); 0 = none
    pc,        \* position of the driver loop
    input,     \* the input of the running decide call
    cur,       \* `node` of Tree::decide: the slot being consulted
    decision,  \* what node.decide(&input) returned
    result,    \* the answer handed back to the caller
    built,     \* history: the heap as it was when the root was moved in
    seen,      \* history: <<input, answer>> of the first completed decide
    acc,       \* result of the last accessor call on a Decision value
    readers,   \* per thread sharing &Tree: the position of its decide call
    evald,     \* indices of the entries the running scan has tested so far
    trees      \* slots moved into a Tree (or a root Decision) by the builder

vars == <<kind, heap, owned, calls, root, pc, input, cur, decision, result,
          built, seen, acc, readers, evald, trees>>

(***************************************************************************)
(* Bounds of the exploration.                                              *)
(***************************************************************************)
MaxNodes == 2
MaxOps == 3

Inputs == {-1, 0, 1}
Actions == {1, 2}
None == [tag |-> "None", val |-> 0]


StaticKinds == {"BinaryNode", "HashMapNode", "PredicateListNode"}
DeciderKinds == {"BinaryDecider", "PredicatedNodesDecider", "ContainsDecider"}

(***************************************************************************)
(* Predicates.  The crate takes arbitrary closures; the ones modelled are  *)
(* the closures its tests build.                                           *)
(***************************************************************************)
Predicate(p, i) ==
    CASE p = "lt_neg10" -> i < -10
      [] p = "lt0"      -> i < 0
      [] p = "eq0"      -> i = 0
      [] p = "gt0"      -> i > 0
      [] p = "gt10"     -> i > 10
      [] p = "ge0"      -> i >= 0

\* The predicates the explored programs choose from.
Preds == {"ge0", "gt0"}

(***************************************************************************)
(* tree.rs: enum Decision { Node(Box<N>), Action(A), _InputMarker(..) }    *)
(***************************************************************************)
DecisionAction(a) == [tag |-> "Action", val |-> a]
DecisionNode(n) == [tag |-> "Node", val |-> n]
InputMarker == [tag |-> "_InputMarker", val |-> 0]

(***************************************************************************)
(* nodes.rs: BinaryNode                                                    *)
(***************************************************************************)
BinaryNode_new(condition, on_true, on_false) ==
    [kind |-> "BinaryNode", condition |-> condition,
     on_true |-> on_true, on_false |-> on_false]

\* A slip: the branches taken the wrong way round.
BinaryNode_decide_swapped(self, i) ==
    IF Predicate(self.condition, i) THEN self.on_false ELSE self.on_true

BinaryNode_decide(self, i) ==
    IF Predicate(self.condition, i) THEN self.on_true ELSE self.on_false

(***************************************************************************)
(* nodes.rs: HashMapNode, a MappingNode.  The std HashMap is a set of      *)
(* (key, value) entries; insert replaces the entry of an equal key.        *)
(***************************************************************************)
HashMapNode_new(default) ==
    [kind |-> "HashMapNode", map |-> {}, default |-> default]

\* A slip: the entry of an equal key is kept beside the new one.
HashMap_insert_keeping(m, k, d) == m \cup {<<k, d>>}

HashMap_insert(m, k, d) == {e \in m : e[1] # k} \cup {<<k, d>>}

HashMapNode_add_decision(self, value, d) ==
    [self EXCEPT !.map = HashMap_insert(@, value, d)]

\* Option<&Decision>: None, or the decision itself for Some(d).
HashMapNode_get_decision(self, i) ==
    IF \E e \in self.map : e[1] = i
    THEN (CHOOSE e \in self.map : e[1] = i)[2]
    ELSE None

HashMapNode_default_decision(self) == self.default

MappingNode_decide(self, i) ==
    LET got == HashMapNode_get_decision(self, i)
    IN  IF got # None THEN got ELSE HashMapNode_default_decision(self)

(***************************************************************************)
(* nodes.rs: PredicateListNode                                             *)
(***************************************************************************)
PredicateListNode_new(default) ==
    [kind |-> "PredicateListNode", list |-> <<>>, default |-> default]

\* A slip: the new pair is put in front of the list.
PredicateListNode_add_decision_front(self, predicate, d) ==
    [self EXCEPT !.list = <<<<predicate, d>>>> \o @]

PredicateListNode_add_decision(self, predicate, d) ==
    [self EXCEPT !.list = Append(@, <<predicate, d>>)]

\* for (predicate, decision) in self.0.iter() { if predicate(input) {..} }
RECURSIVE ScanPredicates(_, _, _, _)
ScanPredicates(list, k, default, i) ==
    IF k > Len(list) THEN default
    ELSE IF Predicate(list[k][1], i) THEN list[k][2]
    ELSE ScanPredicates(list, k + 1, default, i)

PredicateListNode_decide(self, i) ==
    ScanPredicates(self.list, 1, self.default, i)

\* Node::decide, dispatched on the node's type.
Node_decide(self, i) ==
    CASE self.kind = "BinaryNode"        -> BinaryNode_decide(self, i)
      [] self.kind = "HashMapNode"       -> MappingNode_decide(self, i)
      [] self.kind = "PredicateListNode" -> PredicateListNode_decide(self, i)

\* A slip: the table lookup takes the entry out (remove instead of get).
SelfAfterDecide_removing(self, i) ==
    IF self.kind = "HashMapNode"
    THEN [self EXCEPT !.map = {e \in @ : e[1] # i}]
    ELSE self

\* Node::decide takes &self: the node is the same value after the call.
SelfAfterDecide(self, i) == self

(***************************************************************************)
(* deciders.rs.  The deciders hold OwnedNode values and hand out Node      *)
(* views of them.  OwnedNode, Node, the Decider trait and the Decision     *)
(* wrapper with its driver are declared in the parent module, which is not *)
(* among the sources; they are modelled from the specification (sections   *)
(* 3, 4.2 and 4.7).                                                        *)
(***************************************************************************)
OwnedAnswer(a) == [tag |-> "OwnedAnswer", val |-> a]
OwnedDecision(n) == [tag |-> "OwnedDecision", val |-> n]

\* (&owned).into(): an Answer is duplicated, a Decision is borrowed.
IntoNode(o) ==
    IF o.tag = "OwnedAnswer"
    THEN [tag |-> "Answer", val |-> o.val]
    ELSE [tag |-> "Decision", val |-> o.val]

BinaryDecider_new(predicate, on_true, on_false) ==
    [kind |-> "BinaryDecider", predicate |-> predicate,
     on_true |-> on_true, on_false |-> on_false]

BinaryDecider_decide(self, i) ==
    IF Predicate(self.predicate, i)
    THEN IntoNode(self.on_true)
    ELSE IntoNode(self.on_false)

PredicatedNodesDecider_new(default) ==
    [kind |-> "PredicatedNodesDecider", list |-> <<>>, default |-> default]

PredicatedNodesDecider_add_node(self, predicate, node) ==
    [self EXCEPT !.list = Append(@, <<predicate, node>>)]

\* for (predicate, node) in &self.0 { if predicate(input) { return .. } }
RECURSIVE ScanPredicatedNodes(_, _, _, _)
ScanPredicatedNodes(list, k, default, i) ==
    IF k > Len(list) THEN IntoNode(default)
    ELSE IF Predicate(list[k][1], i) THEN IntoNode(list[k][2])
    ELSE ScanPredicatedNodes(list, k + 1, default, i)

PredicatedNodesDecider_decide(self, i) ==
    ScanPredicatedNodes(self.list, 1, self.default, i)

(***************************************************************************)
(* Container: the range impls delegate to the std ranges' contains.        *)
(***************************************************************************)
Range(lo, hi) == [ck |-> "Range", lo |-> lo, hi |-> hi]
RangeTo(hi) == [ck |-> "RangeTo", lo |-> 0, hi |-> hi]
RangeFrom(lo) == [ck |-> "RangeFrom", lo |-> lo, hi |-> 0]
RangeInclusive(lo, hi) == [ck |-> "RangeInclusive", lo |-> lo, hi |-> hi]
RangeToInclusive(hi) == [ck |-> "RangeToInclusive", lo |-> 0, hi |-> hi]

\* A slip: the upper bound of the half-open range taken as included.
Range_contains_closed(self, v) == self.lo <= v /\ v <= self.hi

Range_contains(self, v) == self.lo <= v /\ v < self.hi
RangeTo_contains(self, v) == v < self.hi
RangeFrom_contains(self, v) == self.lo <= v
RangeInclusive_contains(self, v) == self.lo <= v /\ v <= self.hi
RangeToInclusive_contains(self, v) == v <= self.hi

\* Box<dyn Container<I>>: dispatch on the container's type.
Container_contains(self, v) ==
    CASE self.ck = "Range"            -> Range_contains(self, v)
      [] self.ck = "RangeTo"          -> RangeTo_contains(self, v)
      [] self.ck = "RangeFrom"        -> RangeFrom_contains(self, v)
      [] self.ck = "RangeInclusive"   -> RangeInclusive_contains(self, v)
      [] self.ck = "RangeToInclusive" -> RangeToInclusive_contains(self, v)

ContainsDecider_new(default) ==
    [kind |-> "ContainsDecider", list |-> <<>>, default |-> default]

ContainsDecider_add_container(self, container, node) ==
    [self EXCEPT !.list = Append(@, <<container, node>>)]

\* for (container, node) in &self.0 { if container.contains(input) {..} }
RECURSIVE ScanContainers(_, _, _, _)
ScanContainers(list, k, default, i) ==
    IF k > Len(list) THEN IntoNode(default)
    ELSE IF Container_contains(list[k][1], i) THEN IntoNode(list[k][2])
    ELSE ScanContainers(list, k + 1, default, i)

ContainsDecider_decide(self, i) ==
    ScanContainers(self.list, 1, self.default, i)

\* Decider::decide, dispatched on the boxed decider's type.
Decider_decide(self, i) ==
    CASE self.kind = "BinaryDecider" -> BinaryDecider_decide(self, i)
      [] self.kind = "PredicatedNodesDecider" ->
            PredicatedNodesDecider_decide(self, i)
      [] self.kind = "ContainsDecider" -> ContainsDecider_decide(self, i)

\* The containers the explored programs choose from.
Containers ==
    {Range(0, 1), RangeInclusive(0, 1), RangeTo(1), RangeFrom(0),
     RangeToInclusive(0)}

(***************************************************************************)
(* error.rs, and the accessors of a Decision value.  The accessors are     *)
(* not among the sources; they are modelled from section 7 of the          *)
(* specification.                                                          *)
(***************************************************************************)
Error == {"DecisionIsNotABranch", "DecisionIsNotAAnswer"}

Ok(v) == [tag |-> "Ok", val |-> v, err |-> ""]
Err(e) == [tag |-> "Err", val |-> 0, err |-> e]

\* A slip: a branch asked for its answer is coerced to a value.
Decision_answer_coerced(d) == Ok(d.val)

Decision_answer(d) ==
    IF d.tag = "Action" THEN Ok(d.val) ELSE Err("DecisionIsNotAAnswer")

Decision_branch(d) ==
    IF d.tag = "Node" THEN Ok(d.val) ELSE Err("DecisionIsNotABranch")

\* Decider::decide takes &'a self as well.
DeciderAfterDecide(self, i) == self

NoAccess == [op |-> "none", arg |-> None, out |-> Ok(0)]

(***************************************************************************)
(* The state after program start: nothing is constructed yet.  `kind` is   *)
(* the node type the program is written against: Decision<Self, I, A>      *)
(* makes every child of a static node a node of the same type.  The        *)
(* explored decider programs use one decider type as well.                 *)
(***************************************************************************)
Init ==
    /\ kind \in StaticKinds \cup DeciderKinds
    /\ heap = <<>>
    /\ owned = {}
    /\ calls = <<>>
    /\ root = 0
    /\ pc = "idle"
    /\ input = 0
    /\ cur = 0
    /\ decision = None
    /\ result = 0
    /\ built = <<>>
    /\ seen = <<>>
    /\ acc = NoAccess
    /\ readers = <<>>
    /\ evald = <<>>
    /\ trees = {}

RECURSIVE SumAdds(_)
SumAdds(cs) ==
    IF cs = <<>> THEN 0 ELSE Len(Head(cs).adds) + SumAdds(Tail(cs))

\* A slip: wrapping a value leaves it with the builder as well (a copy).
Moved_copying(d) == {}

\* The slot a value is moved out of when it is wrapped in this branch.
Moved(d) == IF d.tag \in {"Node", "OwnedDecision"} THEN {d.val} ELSE {}

\* The Decision values a builder can write down, given the nodes it owns.
Decisions(avail) ==
    {DecisionAction(a) : a \in Actions} \cup {InputMarker}
        \cup {DecisionNode(n) : n \in avail}

\* The OwnedNode values a builder can write down.
OwnedNodes(avail) ==
    {OwnedAnswer(a) : a \in Actions} \cup {OwnedDecision(n) : n \in avail}

Building == root = 0 /\ pc = "idle"
\* The number of constructor and add_* calls made so far.
Ops == Len(heap) + SumAdds(calls)
CanAllocate == Building /\ Ops < MaxOps /\ Len(heap) < MaxNodes
CanAdd == Building /\ Ops < MaxOps

\* One caller on one thread, one tree, node.decide taken as one step.
Single == UNCHANGED <<readers, evald, trees>>

Idle ==
    /\ Single
    /\ UNCHANGED <<kind, root, pc, input, cur, decision, result, built, seen,
                   acc>>

\* A freshly constructed value lands in a new slot, owned by the builder.
Allocate(value, args, moved) ==
    /\ heap' = Append(heap, value)
    /\ calls' = Append(calls, [new |-> args, adds |-> <<>>])
    /\ owned' = (owned \ moved) \cup {Len(heap) + 1}
    /\ Idle

\* A &mut self method ran on slot n and left `value` there.
Mutate(n, value, call, moved) ==
    /\ heap' = [heap EXCEPT ![n] = value]
    /\ calls' = [calls EXCEPT ![n].adds = Append(@, call)]
    /\ owned' = owned \ moved
    /\ Idle

(***************************************************************************)
(* Construction of static nodes (nodes.rs).                                *)
(***************************************************************************)
NewBinaryNode ==
    /\ kind = "BinaryNode" /\ CanAllocate
    /\ \E c \in Preds, t \in Decisions(owned) :
         \E f \in Decisions(owned \ Moved(t)) :
            Allocate(BinaryNode_new(c, t, f), <<c, t, f>>,
                     Moved(t) \cup Moved(f))

NewHashMapNode ==
    /\ kind = "HashMapNode" /\ CanAllocate
    /\ \E d \in Decisions(owned) :
         Allocate(HashMapNode_new(d), <<d>>, Moved(d))

HashMapAdd(n, value, d) ==
    Mutate(n, HashMapNode_add_decision(heap[n], value, d), <<value, d>>,
           Moved(d))

HashMapNode_AddDecision ==
    /\ kind = "HashMapNode" /\ CanAdd
    /\ \E n \in owned, value \in Inputs :
         \E d \in Decisions(owned \ {n}) : HashMapAdd(n, value, d)

\* self.add_decision(value, Decision::Action(action))
MappingNode_AddAction ==
    /\ kind = "HashMapNode" /\ CanAdd
    /\ \E n \in owned, value \in Inputs, a \in Actions :
         HashMapAdd(n, value, DecisionAction(a))

\* self.add_decision(value, Decision::node(node))
MappingNode_AddNode ==
    /\ kind = "HashMapNode" /\ CanAdd
    /\ \E n \in owned, value \in Inputs :
         \E m \in owned \ {n} : HashMapAdd(n, value, DecisionNode(m))

NewPredicateListNode ==
    /\ kind = "PredicateListNode" /\ CanAllocate
    /\ \E d \in Decisions(owned) :
         Allocate(PredicateListNode_new(d), <<d>>, Moved(d))

PredicateListAdd(n, p, d) ==
    Mutate(n, PredicateListNode_add_decision(heap[n], p, d), <<p, d>>,
           Moved(d))

PredicateListNode_AddDecision ==
    /\ kind = "PredicateListNode" /\ CanAdd
    /\ \E n \in owned, p \in Preds :
         \E d \in Decisions(owned \ {n}) : PredicateListAdd(n, p, d)

\* self.add_decision(predicate, Decision::action(action))
PredicateListNode_AddAction ==
    /\ kind = "PredicateListNode" /\ CanAdd
    /\ \E n \in owned, p \in Preds, a \in Actions :
         PredicateListAdd(n, p, DecisionAction(a))

\* self.add_decision(predicate, Decision::node(node))
PredicateListNode_AddNode ==
    /\ kind = "PredicateListNode" /\ CanAdd
    /\ \E n \in owned, p \in Preds :
         \E m \in owned \ {n} : PredicateListAdd(n, p, DecisionNode(m))

(***************************************************************************)
(* Construction of deciders (deciders.rs).                                 *)
(***************************************************************************)
NewBinaryDecider ==
    /\ kind = "BinaryDecider" /\ CanAllocate
    /\ \E p \in Preds, t \in OwnedNodes(owned) :
         \E f \in OwnedNodes(owned \ Moved(t)) :
            Allocate(BinaryDecider_new(p, t, f), <<p, t, f>>,
                     Moved(t) \cup Moved(f))

NewPredicatedNodesDecider ==
    /\ kind = "PredicatedNodesDecider" /\ CanAllocate
    /\ \E d \in OwnedNodes(owned) :
         Allocate(PredicatedNodesDecider_new(d), <<d>>, Moved(d))

PredicatedAdd(n, p, node) ==
    Mutate(n, PredicatedNodesDecider_add_node(heap[n], p, node),
           <<p, node>>, Moved(node))

PredicatedNodesDecider_AddNode ==
    /\ kind = "PredicatedNodesDecider" /\ CanAdd
    /\ \E n \in owned, p \in Preds :
         \E node \in OwnedNodes(owned \ {n}) : PredicatedAdd(n, p, node)

\* self.add_node(predicate, OwnedNode::Answer(answer))
PredicatedNodesDecider_AddAnswer ==
    /\ kind = "PredicatedNodesDecider" /\ CanAdd
    /\ \E n \in owned, p \in Preds, a \in Actions :
         PredicatedAdd(n, p, OwnedAnswer(a))

\* self.add_node(predicate, OwnedNode::Decision(Decision::new(decider)))
PredicatedNodesDecider_AddDecision ==
    /\ kind = "PredicatedNodesDecider" /\ CanAdd
    /\ \E n \in owned, p \in Preds :
         \E m \in owned \ {n} : PredicatedAdd(n, p, OwnedDecision(m))

NewContainsDecider ==
    /\ kind = "ContainsDecider" /\ CanAllocate
    /\ \E d \in OwnedNodes(owned) :
         Allocate(ContainsDecider_new(d), <<d>>, Moved(d))

ContainsAdd(n, c, node) ==
    Mutate(n, ContainsDecider_add_container(heap[n], c, node),
           <<c, node>>, Moved(node))

ContainsDecider_AddContainer ==
    /\ kind = "ContainsDecider" /\ CanAdd
    /\ \E n \in owned, c \in Containers :
         \E node \in OwnedNodes(owned \ {n}) : ContainsAdd(n, c, node)

\* self.add_container(container, OwnedNode::Answer(answer))
ContainsDecider_AddAnswer ==
    /\ kind = "ContainsDecider" /\ CanAdd
    /\ \E n \in owned, c \in Containers, a \in Actions :
         ContainsAdd(n, c, OwnedAnswer(a))

\* self.add_container(container, OwnedNode::Decision(Decision::new(decider)))
ContainsDecider_AddDecision ==
    /\ kind = "ContainsDecider" /\ CanAdd
    /\ \E n \in owned, c \in Containers :
         \E m \in owned \ {n} : ContainsAdd(n, c, OwnedDecision(m))

(***************************************************************************)
(* tree.rs: Tree.  Tree::new moves the root into the tree; nothing hands   *)
(* out a &mut to it afterwards, so construction ends there.  The explored  *)
(* builders are of the shape of create_binary_tree: every value they       *)
(* construct ends up in the tree they return (owned = {r}); a value left   *)
(* in a local of the builder takes part in no traversal.                   *)
(***************************************************************************)
Tree_new ==
    /\ kind \in StaticKinds /\ Building
    /\ \E r \in owned :
         /\ owned = {r}
         /\ root' = r
         /\ owned' = owned \ {r}
    /\ built' = heap
    /\ Single
    /\ UNCHANGED <<kind, heap, calls, pc, input, cur, decision, result,
                   seen, acc>>

\* let mut node = &self.root;
TreeDecide_BeginWith(inputs) ==
    /\ kind \in StaticKinds /\ root # 0 /\ pc \in {"idle", "done"}
    /\ \E i \in inputs : input' = i
    /\ cur' = root
    /\ pc' = "call"
    /\ decision' = None
    /\ result' = 0
    /\ Single
    /\ UNCHANGED <<kind, heap, owned, calls, root, built, seen, acc>>

TreeDecide_Begin == TreeDecide_BeginWith(Inputs)

\* match node.decide(&input) { .. }: the call
TreeDecide_Call ==
    /\ kind \in StaticKinds /\ pc = "call"
    /\ decision' = Node_decide(heap[cur], input)
    /\ heap' = [heap EXCEPT ![cur] = SelfAfterDecide(@, input)]
    /\ pc' = "match"
    /\ Single
    /\ UNCHANGED <<kind, owned, calls, root, input, cur, result, built,
                   seen, acc>>

\* A slip: the arm forgets to move on to n.
TreeDecide_Node_staying ==
    /\ kind \in StaticKinds /\ pc = "match" /\ decision.tag = "Node"
    /\ pc' = "call"
    /\ decision' = None
    /\ acc' = NoAccess
    /\ Single
    /\ UNCHANGED <<kind, heap, owned, calls, root, input, cur, result, built,
                   seen>>

\* Decision::Node(n) => node = n
TreeDecide_Node ==
    /\ kind \in StaticKinds /\ pc = "match" /\ decision.tag = "Node"
    /\ cur' = decision.val
    /\ pc' = "call"
    /\ decision' = None
    /\ acc' = NoAccess
    /\ Single
    /\ UNCHANGED <<kind, heap, owned, calls, root, input, result, built,
                   seen>>

\* Decision::Action(a) => return a
TreeDecide_Action ==
    /\ kind \in StaticKinds /\ pc = "match" /\ decision.tag = "Action"
    /\ result' = decision.val
    /\ pc' = "done"
    /\ cur' = 0
    /\ decision' = None
    /\ acc' = NoAccess
    /\ seen' = IF seen = <<>> THEN <<input, decision.val>> ELSE seen
    /\ Single
    /\ UNCHANGED <<kind, heap, owned, calls, root, input, built>>

\* _ => unreachable!()
TreeDecide_Unreachable ==
    /\ kind \in StaticKinds /\ pc = "match"
    /\ decision.tag \notin {"Node", "Action"}
    /\ pc' = "panic"
    /\ acc' = NoAccess
    /\ Single
    /\ UNCHANGED <<kind, heap, owned, calls, root, input, cur, decision,
                   result, built, seen>>

(***************************************************************************)
(* The accessors, applied by a caller of Node::decide to the Decision it   *)
(* was handed.                                                             *)
(***************************************************************************)
Access ==
    /\ kind \in StaticKinds /\ pc = "match" /\ acc = NoAccess
    /\ decision.tag \in {"Node", "Action"}
    /\ \/ acc' = [op |-> "answer", arg |-> decision,
                  out |-> Decision_answer(decision)]
       \/ acc' = [op |-> "branch", arg |-> decision,
                  out |-> Decision_branch(decision)]
    /\ Single
    /\ UNCHANGED <<kind, heap, owned, calls, root, pc, input, cur, decision,
                   result, built, seen>>

(***************************************************************************)
(* The Decision wrapper of a decider and its driver (sections 4.2, 4.7).   *)
(***************************************************************************)
Decision_new ==
    /\ kind \in DeciderKinds /\ Building
    /\ \E r \in owned :
         /\ owned = {r}
         /\ root' = r
         /\ owned' = owned \ {r}
    /\ built' = heap
    /\ Single
    /\ UNCHANGED <<kind, heap, calls, pc, input, cur, decision, result,
                   seen, acc>>

DecisionDecide_BeginWith(inputs) ==
    /\ kind \in DeciderKinds /\ root # 0 /\ pc \in {"idle", "done"}
    /\ \E i \in inputs : input' = i
    /\ cur' = root
    /\ pc' = "call"
    /\ decision' = None
    /\ result' = 0
    /\ Single
    /\ UNCHANGED <<kind, heap, owned, calls, root, built, seen, acc>>

DecisionDecide_Begin == DecisionDecide_BeginWith(Inputs)

DecisionDecide_Call ==
    /\ kind \in DeciderKinds /\ pc = "call"
    /\ decision' = Decider_decide(heap[cur], input)
    /\ heap' = [heap EXCEPT ![cur] = DeciderAfterDecide(@, input)]
    /\ pc' = "match"
    /\ Single
    /\ UNCHANGED <<kind, owned, calls, root, input, cur, result, built,
                   seen, acc>>

DecisionDecide_Decision ==
    /\ kind \in DeciderKinds /\ pc = "match" /\ decision.tag = "Decision"
    /\ cur' = decision.val
    /\ pc' = "call"
    /\ decision' = None
    /\ Single
    /\ UNCHANGED <<kind, heap, owned, calls, root, input, result, built,
                   seen, acc>>

DecisionDecide_Answer ==
    /\ kind \in DeciderKinds /\ pc = "match" /\ decision.tag = "Answer"
    /\ result' = decision.val
    /\ pc' = "done"
    /\ cur' = 0
    /\ decision' = None
    /\ seen' = IF seen = <<>> THEN <<input, decision.val>> ELSE seen
    /\ Single
    /\ UNCHANGED <<kind, heap, owned, calls, root, input, built, acc>>

Construct ==
    \/ NewBinaryNode
    \/ NewHashMapNode
    \/ HashMapNode_AddDecision
    \/ MappingNode_AddAction
    \/ MappingNode_AddNode
    \/ NewPredicateListNode
    \/ PredicateListNode_AddDecision
    \/ PredicateListNode_AddAction
    \/ PredicateListNode_AddNode
    \/ NewBinaryDecider
    \/ NewPredicatedNodesDecider
    \/ PredicatedNodesDecider_AddNode
    \/ PredicatedNodesDecider_AddAnswer
    \/ PredicatedNodesDecider_AddDecision
    \/ NewContainsDecider
    \/ ContainsDecider_AddContainer
    \/ ContainsDecider_AddAnswer
    \/ ContainsDecider_AddDecision

TreeDecide ==
    \/ TreeDecide_Begin
    \/ TreeDecide_Call
    \/ TreeDecide_Node
    \/ TreeDecide_Action
    \/ TreeDecide_Unreachable

DecisionDecide ==
    \/ DecisionDecide_Begin
    \/ DecisionDecide_Call
    \/ DecisionDecide_Decision
    \/ DecisionDecide_Answer

Next ==
    \/ Construct
    \/ Tree_new
    \/ Decision_new
    \/ TreeDecide
    \/ DecisionDecide
    \/ Access

Spec == Init /\ [][Next]_vars

\* Once called, Tree::decide runs: its loop is plain synchronous code.
TreeDecide_Step ==
    \/ TreeDecide_Call
    \/ TreeDecide_Node
    \/ TreeDecide_Action
    \/ TreeDecide_Unreachable

SpecLive == Spec /\ WF_vars(TreeDecide_Step)

(***************************************************************************)
(* The trees of the tests: create_binary_tree (tree.rs) in slots 1-4, the  *)
(* nested binary deciders of test_binary_tree (deciders.rs) in slots 5-8,  *)
(* the decider of test_predicated_nodes_decider in slot 9 and that of      *)
(* test_container_decider_with_ranges in slot 10.                          *)
(***************************************************************************)
LessThanNegativeTen == 1
LessThanZero == 2
Zero == 3
GreaterThanZero == 4
GreaterThanTen == 5

create_binary_tree ==
    <<BinaryNode_new("lt_neg10", DecisionAction(LessThanNegativeTen),
                     DecisionAction(LessThanZero)),
      BinaryNode_new("gt10", DecisionAction(GreaterThanTen),
                     DecisionAction(GreaterThanZero)),
      BinaryNode_new("eq0", DecisionAction(Zero), DecisionNode(2)),
      BinaryNode_new("ge0", DecisionNode(3), DecisionNode(1))>>

binary_decider_tree ==
    <<BinaryDecider_new("gt10", OwnedAnswer(GreaterThanTen),
                        OwnedAnswer(GreaterThanZero)),
      BinaryDecider_new("gt0", OwnedDecision(5), OwnedAnswer(Zero)),
      BinaryDecider_new("lt_neg10", OwnedAnswer(LessThanNegativeTen),
                        OwnedAnswer(LessThanZero)),
      BinaryDecider_new("ge0", OwnedDecision(6), OwnedDecision(7))>>

predicated_nodes_decider ==
    PredicatedNodesDecider_add_node(
      PredicatedNodesDecider_add_node(
        PredicatedNodesDecider_add_node(
          PredicatedNodesDecider_add_node(
            PredicatedNodesDecider_new(OwnedAnswer(Zero)),
            "lt_neg10", OwnedAnswer(LessThanNegativeTen)),
          "gt10", OwnedAnswer(GreaterThanTen)),
        "lt0", OwnedAnswer(LessThanZero)),
      "gt0", OwnedAnswer(GreaterThanZero))

container_decider_with_ranges ==
    ContainsDecider_add_container(
      ContainsDecider_add_container(
        ContainsDecider_add_container(
          ContainsDecider_add_container(
            ContainsDecider_new(OwnedAnswer(Zero)),
            Range(-10, 0), OwnedAnswer(LessThanZero)),
          RangeInclusive(1, 10), OwnedAnswer(GreaterThanZero)),
        RangeFrom(11), OwnedAnswer(GreaterThanTen)),
      RangeTo(-10), OwnedAnswer(LessThanNegativeTen))

TestHeap ==
    create_binary_tree \o binary_decider_tree
        \o <<predicated_nodes_decider, container_decider_with_ranges>>

BinaryTreeRoot == Len(create_binary_tree)
BinaryDeciderRoot == BinaryTreeRoot + Len(binary_decider_tree)
PredicatedRoot == BinaryDeciderRoot + 1
ContainsRoot == PredicatedRoot + 1

\* The probes of the tests and every integer around the thresholds.
TestInputs == {-50, 50} \cup (-12..12)

\* The state after one of the tests has built its tree.
InitTests ==
    /\ heap = TestHeap
    /\ root \in {BinaryTreeRoot, BinaryDeciderRoot, PredicatedRoot,
                 ContainsRoot}
    /\ kind = heap[root].kind
    /\ owned = {}
    /\ calls = <<>>
    /\ pc = "idle"
    /\ input = 0
    /\ cur = 0
    /\ decision = None
    /\ result = 0
    /\ built = heap
    /\ seen = <<>>
    /\ acc = NoAccess
    /\ readers = <<>>
    /\ evald = <<>>
    /\ trees = {}

TestTreeDecide_Begin == TreeDecide_BeginWith(TestInputs)
TestDecisionDecide_Begin == DecisionDecide_BeginWith(TestInputs)

\* The tests' trees hold no _InputMarker: the unreachable!() arm is left out.
NextTests ==
    \/ TestTreeDecide_Begin
    \/ TreeDecide_Call
    \/ TreeDecide_Node
    \/ TreeDecide_Action
    \/ TestDecisionDecide_Begin
    \/ DecisionDecide_Call
    \/ DecisionDecide_Decision
    \/ DecisionDecide_Answer

SpecTests == InitTests /\ [][NextTests]_vars

(***************************************************************************)
(* Several threads sharing one &Tree, each running Tree::decide.           *)
(* Sharing needs Tree: Sync.  Predicate<I> is Box<dyn Fn(&I) -> bool>,     *)
(* which is not Sync, so of the nodes of nodes.rs only a HashMapNode tree  *)
(* can be handed to a second thread.  Tree lends out no &mut, so no add_*  *)
(* call can run once the root has been moved in.  A step of a reader is    *)
(* one call of node.decide or one arm of the match.                        *)
(***************************************************************************)
Readers == {1, 2}

IdleReader ==
    [pc |-> "idle", input |-> 0, cur |-> 0, decision |-> None, result |-> 0]

InitReaders ==
    /\ kind = "HashMapNode"
    /\ heap = <<>>
    /\ owned = {}
    /\ calls = <<>>
    /\ root = 0
    /\ pc = "idle"
    /\ input = 0
    /\ cur = 0
    /\ decision = None
    /\ result = 0
    /\ built = <<>>
    /\ seen = <<>>
    /\ acc = NoAccess
    /\ readers = [r \in Readers |-> IdleReader]
    /\ evald = <<>>
    /\ trees = {}

\* What a reader's step leaves alone: everything but the heap it reads and
\* its own position.
ReaderFrame ==
    UNCHANGED <<kind, owned, calls, root, pc, input, cur, decision, result,
                built, seen, acc, evald, trees>>

\* let mut node = &self.root;
Reader_Begin(r) ==
    /\ root # 0 /\ readers[r].pc \in {"idle", "done"}
    /\ \E i \in Inputs :
         readers' = [readers EXCEPT ![r] =
                        [pc |-> "call", input |-> i, cur |-> root,
                         decision |-> None, result |-> 0]]
    /\ UNCHANGED heap
    /\ ReaderFrame

\* match node.decide(&input) { .. }: the call
Reader_Call(r) ==
    /\ readers[r].pc = "call"
    /\ readers' = [readers EXCEPT
                      ![r].decision =
                          Node_decide(heap[readers[r].cur], readers[r].input),
                      ![r].pc = "match"]
    /\ heap' = [heap EXCEPT ![readers[r].cur] =
                               SelfAfterDecide(@, readers[r].input)]
    /\ ReaderFrame

\* Decision::Node(n) => node = n
Reader_Node(r) ==
    /\ readers[r].pc = "match" /\ readers[r].decision.tag = "Node"
    /\ readers' = [readers EXCEPT ![r].cur = readers[r].decision.val,
                                  ![r].decision = None,
                                  ![r].pc = "call"]
    /\ UNCHANGED heap
    /\ ReaderFrame

\* Decision::Action(a) => return a
Reader_Action(r) ==
    /\ readers[r].pc = "match" /\ readers[r].decision.tag = "Action"
    /\ readers' = [readers EXCEPT ![r].result = readers[r].decision.val,
                                  ![r].cur = 0,
                                  ![r].decision = None,
                                  ![r].pc = "done"]
    /\ UNCHANGED heap
    /\ ReaderFrame

\* _ => unreachable!(): the thread of this reader panics, the others go on.
Reader_Unreachable(r) ==
    /\ readers[r].pc = "match"
    /\ readers[r].decision.tag \notin {"Node", "Action"}
    /\ readers' = [readers EXCEPT ![r].pc = "panic"]
    /\ UNCHANGED heap
    /\ ReaderFrame

NextReaders ==
    \/ NewHashMapNode
    \/ HashMapNode_AddDecision
    \/ MappingNode_AddAction
    \/ MappingNode_AddNode
    \/ Tree_new
    \/ \E r \in Readers : Reader_Begin(r)
    \/ \E r \in Readers : Reader_Call(r)
    \/ \E r \in Readers : Reader_Node(r)
    \/ \E r \in Readers : Reader_Action(r)
    \/ \E r \in Readers : Reader_Unreachable(r)

SpecReaders == InitReaders /\ [][NextReaders]_vars

(***************************************************************************)
(* The for loops of PredicateListNode::decide (nodes.rs) and of            *)
(* PredicatedNodesDecider::decide and ContainsDecider::decide              *)
(* (deciders.rs), one iteration at a time.  The iterator stands before     *)
(* entry Len(evald) + 1; entries are numbered from 1 here and from 0 in    *)
(* the Vec.  decide is called on any node of a built tree.                 *)
(***************************************************************************)
ScanKinds == {"PredicateListNode", "PredicatedNodesDecider", "ContainsDecider"}

InitScan ==
    /\ kind \in ScanKinds
    /\ heap = <<>>
    /\ owned = {}
    /\ calls = <<>>
    /\ root = 0
    /\ pc = "idle"
    /\ input = 0
    /\ cur = 0
    /\ decision = None
    /\ result = 0
    /\ built = <<>>
    /\ seen = <<>>
    /\ acc = NoAccess
    /\ readers = <<>>
    /\ evald = <<>>
    /\ trees = {}

\* predicate(input), or container.contains(input), of entry k.
EntryTest(self, k, i) ==
    IF self.kind = "ContainsDecider"
    THEN Container_contains(self.list[k][1], i)
    ELSE Predicate(self.list[k][1], i)

\* What decide hands back for a branch it holds: the reference itself in
\* nodes.rs, node.into() in deciders.rs.
BranchView(self, b) ==
    IF self.kind = "PredicateListNode" THEN b ELSE IntoNode(b)

ScanFrame ==
    UNCHANGED <<kind, heap, owned, calls, root, result, built, seen, acc,
                readers, trees>>

\* node.decide(&input): the for loop is entered.
Scan_Begin ==
    /\ kind \in ScanKinds /\ root # 0 /\ pc \in {"idle", "match"}
    /\ \E n \in 1..Len(heap), i \in Inputs :
         /\ cur' = n
         /\ input' = i
    /\ pc' = "scan"
    /\ decision' = None
    /\ evald' = <<>>
    /\ ScanFrame

\* A slip: the matching entry is noted but the loop goes on.
Scan_Test_continuing ==
    /\ pc = "scan" /\ Len(evald) < Len(heap[cur].list)
    /\ LET k == Len(evald) + 1
       IN  /\ evald' = Append(evald, k)
           /\ IF EntryTest(heap[cur], k, input)
              THEN decision' = BranchView(heap[cur], heap[cur].list[k][2])
              ELSE decision' = decision
           /\ pc' = "scan"
    /\ UNCHANGED <<input, cur>>
    /\ ScanFrame

\* if predicate(input) { return decision; }
Scan_Test ==
    /\ pc = "scan" /\ Len(evald) < Len(heap[cur].list)
    /\ LET k == Len(evald) + 1
       IN  /\ evald' = Append(evald, k)
           /\ IF EntryTest(heap[cur], k, input)
              THEN /\ decision' = BranchView(heap[cur], heap[cur].list[k][2])
                   /\ pc' = "match"
              ELSE UNCHANGED <<decision, pc>>
    /\ UNCHANGED <<input, cur>>
    /\ ScanFrame

\* &self.1: the iterator is exhausted.
Scan_Default ==
    /\ pc = "scan" /\ Len(evald) = Len(heap[cur].list)
    /\ decision' = BranchView(heap[cur], heap[cur].default)
    /\ pc' = "match"
    /\ UNCHANGED <<input, cur, evald>>
    /\ ScanFrame

NextScan ==
    \/ NewPredicateListNode
    \/ PredicateListNode_AddDecision
    \/ PredicateListNode_AddAction
    \/ PredicateListNode_AddNode
    \/ NewPredicatedNodesDecider
    \/ PredicatedNodesDecider_AddNode
    \/ PredicatedNodesDecider_AddAnswer
    \/ PredicatedNodesDecider_AddDecision
    \/ NewContainsDecider
    \/ ContainsDecider_AddContainer
    \/ ContainsDecider_AddAnswer
    \/ ContainsDecider_AddDecision
    \/ Tree_new
    \/ Decision_new
    \/ Scan_Begin
    \/ Scan_Test
    \/ Scan_Default

SpecScan == InitScan /\ [][NextScan]_vars

(***************************************************************************)
(* A builder that makes several trees: Tree::new (tree.rs) moves one of    *)
(* the values the builder owns into a Tree of its own, and the builder     *)
(* goes on constructing with the values it still owns.  Tree keeps its     *)
(* root private and lends it out by shared reference only (root_node), so  *)
(* nothing in a tree is constructed on any further.                        *)
(***************************************************************************)
InitBuild ==
    /\ kind \in StaticKinds
    /\ heap = <<>>
    /\ owned = {}
    /\ calls = <<>>
    /\ root = 0
    /\ pc = "idle"
    /\ input = 0
    /\ cur = 0
    /\ decision = None
    /\ result = 0
    /\ built = <<>>
    /\ seen = <<>>
    /\ acc = NoAccess
    /\ readers = <<>>
    /\ evald = <<>>
    /\ trees = {}

\* Tree::new(root): the value is moved out of the builder's local.
Tree_new_each ==
    /\ kind \in StaticKinds /\ Building
    /\ \E r \in owned :
         /\ trees' = trees \cup {r}
         /\ owned' = owned \ {r}
    /\ UNCHANGED <<kind, heap, calls, root, pc, input, cur, decision, result,
                   built, seen, acc, readers, evald>>

NextBuild ==
    \/ NewBinaryNode
    \/ NewHashMapNode
    \/ HashMapNode_AddDecision
    \/ MappingNode_AddAction
    \/ MappingNode_AddNode
    \/ NewPredicateListNode
    \/ PredicateListNode_AddDecision
    \/ PredicateListNode_AddAction
    \/ PredicateListNode_AddNode
    \/ Tree_new_each

SpecBuild == InitBuild /\ [][NextBuild]_vars

(***************************************************************************)
(* Properties.  They are stated over the history variables: `calls` holds  *)
(* what the builder passed in, `decision` what node.decide handed back.    *)
(***************************************************************************)
Slots == 1..Len(heap)

\* The node being consulted has just returned `decision`.
Returned(k) == pc = "match" /\ kind = k

\* Index of the earliest add whose predicate holds for i; 0 if none does.
FirstTrue(adds, i) ==
    LET hits == {k \in 1..Len(adds) : Predicate(adds[k][1], i)}
    IN  IF hits = {} THEN 0 ELSE CHOOSE k \in hits : \A j \in hits : k <= j

\* The branch the builder attached to the earliest true predicate, or the
\* default it passed to new.
FirstTrueBranch(c, i) ==
    IF FirstTrue(c.adds, i) = 0 THEN c.new[1]
    ELSE c.adds[FirstTrue(c.adds, i)][2]

\* C2: an ordered predicate-list node or decider returns the branch of the
\* earliest-appended predicate that is true of the input, and the default
\* given at construction when no appended predicate is true.
C2_FirstMatchWins ==
    /\ Returned("PredicateListNode") =>
          decision = FirstTrueBranch(calls[cur], input)
    /\ Returned("PredicatedNodesDecider") =>
          decision = IntoNode(FirstTrueBranch(calls[cur], input))

\* Two appended predicates are both true of the input and carry different
\* branches: the order of appending decides the result.
C2_Witness ==
    /\ Returned("PredicateListNode")
    /\ Len(calls[cur].adds) >= 2
    /\ Predicate(calls[cur].adds[1][1], input)
    /\ Predicate(calls[cur].adds[2][1], input)
    /\ calls[cur].adds[1][2] # calls[cur].adds[2][2]
    /\ decision = calls[cur].adds[1][2]

\* Index of the most recent add for key k; 0 if the key was never added.
LastAdd(adds, k) ==
    LET hits == {j \in 1..Len(adds) : adds[j][1] = k}
    IN  IF hits = {} THEN 0 ELSE CHOOSE j \in hits : \A h \in hits : h <= j

\* C3: in an exact-match table node, get_decision(k) is the decision of the
\* most recent add_decision for k, every key has at most one entry, and
\* decide returns the default for a key that was never added.
C3_TableLookup ==
    /\ kind = "HashMapNode" =>
          \A n \in Slots, k \in Inputs :
             LET last == LastAdd(calls[n].adds, k)
             IN  /\ Cardinality({e \in heap[n].map : e[1] = k}) <= 1
                 /\ last # 0 => HashMapNode_get_decision(heap[n], k)
                                   = calls[n].adds[last][2]
                 /\ last = 0 => HashMapNode_get_decision(heap[n], k) = None
    /\ Returned("HashMapNode") =>
          LET last == LastAdd(calls[cur].adds, input)
          IN  decision = IF last = 0 THEN calls[cur].new[1]
                         ELSE calls[cur].adds[last][2]

\* A key was added twice with different decisions and is then looked up.
C3_Witness ==
    /\ Returned("HashMapNode")
    /\ Len(calls[cur].adds) = 2
    /\ calls[cur].adds[1][1] = input
    /\ calls[cur].adds[2][1] = input
    /\ calls[cur].adds[1][2] # calls[cur].adds[2][2]
    /\ decision = calls[cur].adds[2][2]

\* What the test closures compute, written out per threshold.
Holds(p, i) ==
    \/ p = "ge0" /\ i \in {0, 1}
    \/ p = "gt0" /\ i = 1

\* C4: a binary node or decider returns its true-branch when the predicate
\* is true of the input and its false-branch when it is false, also for an
\* input equal to the threshold of the predicate.
C4_BinarySplit ==
    /\ Returned("BinaryNode") =>
          decision = IF Holds(calls[cur].new[1], input)
                     THEN calls[cur].new[2] ELSE calls[cur].new[3]
    /\ Returned("BinaryDecider") =>
          decision = IntoNode(IF Holds(calls[cur].new[1], input)
                              THEN calls[cur].new[2] ELSE calls[cur].new[3])

\* The input is the threshold of n > 0, which is false there, and the two
\* branches differ.
C4_Witness ==
    /\ Returned("BinaryNode")
    /\ input = 0
    /\ calls[cur].new[1] = "gt0"
    /\ calls[cur].new[2] # calls[cur].new[3]
    /\ decision = calls[cur].new[3]

\* The bounds a range has, and whether the range includes each.
LowerBound(c) == IF c.ck \in {"Range", "RangeInclusive", "RangeFrom"}
                 THEN {c.lo} ELSE {}
UpperBound(c) == IF c.ck \in {"Range", "RangeInclusive", "RangeTo",
                              "RangeToInclusive"}
                 THEN {c.hi} ELSE {}
IncludesUpper(c) == c.ck \in {"RangeInclusive", "RangeToInclusive"}

\* Whether v, a bound of the non-empty range c, is included in it.
BoundIncluded(c, v) ==
    \/ v \in LowerBound(c) /\ (v \notin UpperBound(c) \/ IncludesUpper(c))
    \/ v \in UpperBound(c) /\ v \notin LowerBound(c) /\ IncludesUpper(c)

NonEmptyRange(c) ==
    \A lo \in LowerBound(c), hi \in UpperBound(c) :
       lo < hi \/ (lo = hi /\ IncludesUpper(c))

\* C5: lo..hi contains lo and excludes hi, lo..=hi contains both, ..hi
\* excludes hi, lo.. includes lo; a ContainsDecider given an input equal to
\* a bound of a range (no earlier range containing it) returns that range's
\* branch if the bound is included and moves on to the later entries if not.
C5_RangeBounds ==
    Returned("ContainsDecider") =>
       \A k \in 1..Len(calls[cur].adds) :
          LET c == calls[cur].adds[k][1]
              earlier == \E j \in 1..(k - 1) :
                            Container_contains(calls[cur].adds[j][1], input)
          IN  (/\ input \in LowerBound(c) \cup UpperBound(c)
               /\ NonEmptyRange(c)
               /\ ~earlier)
              => /\ Container_contains(c, input) = BoundIncluded(c, input)
                 /\ BoundIncluded(c, input) =>
                       decision = IntoNode(calls[cur].adds[k][2])
                 /\ ~BoundIncluded(c, input) =>
                       decision = ScanContainers(heap[cur].list, k + 1,
                                                 heap[cur].default, input)

\* The input is the excluded upper bound of a half-open range whose branch
\* differs from the default, and the decider returns the default.
C5_Witness ==
    /\ Returned("ContainsDecider")
    /\ Len(calls[cur].adds) = 1
    /\ calls[cur].adds[1][1] = Range(0, 1)
    /\ input = 1
    /\ calls[cur].adds[1][2] # calls[cur].new[1]
    /\ decision = IntoNode(calls[cur].new[1])

\* The branches a node holds.
Branches(node) ==
    CASE node.kind \in {"BinaryNode", "BinaryDecider"} ->
            {node.on_true, node.on_false}
      [] node.kind = "HashMapNode" ->
            {e[2] : e \in node.map} \cup {node.default}
      [] OTHER ->
            {node.list[k][2] : k \in 1..Len(node.list)} \cup {node.default}

Children(n) == {d.val : d \in {b \in Branches(heap[n]) : Moved(b) # {}}}

RECURSIVE ReachFrom(_)
ReachFrom(S) ==
    LET more == S \cup UNION {Children(n) : n \in S}
    IN  IF more = S THEN S ELSE ReachFrom(more)

\* Every branch of the tree was made by Decision::node or Decision::action.
HelpersOnly ==
    \A n \in ReachFrom({root}) :
       \A b \in Branches(heap[n]) : b.tag \in {"Node", "Action"}

\* C1: on a tree built with the provided constructors Tree::decide, once
\* called, returns, and what it returns is an Action value (never a Node
\* decision).
C1_DecideTerminates ==
    /\ [](kind \in StaticKinds /\ pc = "done" => result \in Actions)
    /\ (kind \in StaticKinds /\ pc = "call" /\ HelpersOnly) ~> (pc = "done")

\* A call on a two-level tree has returned the answer found in the child.
C1_Witness ==
    /\ kind \in StaticKinds /\ pc = "done" /\ HelpersOnly
    /\ Node_decide(heap[root], input).tag = "Node"
    /\ result \in Actions

\* C8 (as claimed): no tree that can be built makes Tree::decide reach its
\* unreachable!() arm.
C8_NeverUnreachable == pc # "panic"

\* C9: asking a Continue (Node) decision for its answer fails with the
\* not-an-answer error, asking an Answer (Action) decision for its branch
\* fails with the not-a-branch error, and neither call changes the decision
\* or the tree.
C9_WrongAccessorFails ==
    acc.op # "none" =>
       /\ (acc.op = "answer" /\ acc.arg.tag = "Node")
             => acc.out = Err("DecisionIsNotAAnswer")
       /\ (acc.op = "branch" /\ acc.arg.tag = "Action")
             => acc.out = Err("DecisionIsNotABranch")
       /\ acc.out.tag = "Err" => acc.out.err \in Error
       /\ decision = acc.arg
       /\ heap = built

\* A Node decision was asked for its answer.
C9_Witness ==
    /\ acc.op = "answer"
    /\ acc.arg.tag = "Node"
    /\ acc.out.tag = "Err"

\* The answer of the tree rooted at n for input i, by recursion on the heap
\* h (0 where the walk ends in neither a node nor an answer).
RECURSIVE AnswerOf(_, _, _)
AnswerOf(h, n, i) ==
    LET d == IF h[n].kind \in StaticKinds
             THEN Node_decide(h[n], i) ELSE Decider_decide(h[n], i)
    IN  CASE d.tag \in {"Node", "Decision"} -> AnswerOf(h, d.val, i)
          [] d.tag \in {"Action", "Answer"} -> d.val
          [] OTHER -> 0

\* C10: decide changes nothing: the heap stays as built, so every call
\* returns the answer of the tree as built, and a call repeating the input
\* of the first call returns the first call's answer.
C10_DecideIsPure ==
    root # 0 =>
       /\ heap = built
       /\ pc = "done" => result = AnswerOf(built, root, input)
       /\ (pc = "done" /\ seen # <<>> /\ seen[1] = input) => result = seen[2]

\* A later call repeats the input of the first completed call and is about
\* to return; it went through a child node.
C10_Witness ==
    /\ pc = "match" /\ cur # root
    /\ seen # <<>> /\ seen[1] = input
    /\ decision.tag \in {"Action", "Answer"}
    /\ decision.val = seen[2]

\* The class of an integer, as the five intervals.
Classify(i) ==
    CASE i < -10               -> LessThanNegativeTen
      [] -10 <= i /\ i < 0     -> LessThanZero
      [] i = 0                 -> Zero
      [] 0 < i /\ i <= 10      -> GreaterThanZero
      [] i > 10                -> GreaterThanTen

\* C6: on the tree of create_binary_tree, Tree::decide(i) is
\* LessThanNegativeTen for i < -10, LessThanZero for -10 <= i < 0, Zero for
\* i = 0, GreaterThanZero for 0 < i <= 10 and GreaterThanTen for i > 10.
C6_BinaryTreeClassifies ==
    (root = BinaryTreeRoot /\ pc = "done") => result = Classify(input)

\* decide(-10) has returned LessThanZero.
C6_Witness ==
    /\ root = BinaryTreeRoot /\ pc = "done"
    /\ input = -10
    /\ result = LessThanZero

\* C7: for every input the ordered predicate-list decider and the
\* membership decider over the ranges return the answer of the nested
\* binary-decider tree.
C7_SameAnswers ==
    (root \in {BinaryDeciderRoot, PredicatedRoot, ContainsRoot}
        /\ pc = "done")
    => result = AnswerOf(heap, BinaryDeciderRoot, input)

\* The membership decider has answered for -10, the bound that ..-10
\* excludes and -10..0 includes.
C7_Witness ==
    /\ root = ContainsRoot /\ pc = "done"
    /\ input = -10
    /\ result = LessThanZero
    /\ AnswerOf(heap, BinaryDeciderRoot, input) = LessThanZero

\* The reader r is inside a call of Tree::decide.
Reading(r) == readers[r].pc \in {"call", "match"}

\* C11: readers of one built tree, their steps interleaved in any order,
\* each get the answer a lone caller gets for the same input: every
\* node.decide returns what the node as built returns, a reader that
\* returns hands back the answer of the tree as built, a reader that panics
\* is one a lone caller's walk would have panicked for too, and the tree
\* stays as it was built.
C11_ReadersAgree ==
    root # 0 =>
       /\ heap = built
       /\ \A r \in Readers :
            /\ readers[r].pc = "match" =>
                  readers[r].decision
                     = Node_decide(built[readers[r].cur], readers[r].input)
            /\ readers[r].pc = "done" =>
                  readers[r].result
                     = AnswerOf(built, root, readers[r].input)
            /\ readers[r].pc = "panic" =>
                  AnswerOf(built, root, readers[r].input) = 0

\* Both readers are inside a call for the same input at once: one has been
\* handed the answer by a child node while the other has just looked the
\* input up in the root, and the answer is the lone caller's.
C11_Witness ==
    /\ \A r \in Readers : Reading(r)
    /\ readers[1].input = readers[2].input
    /\ readers[1].pc = "match" /\ readers[1].cur # root
    /\ readers[1].decision.tag = "Action"
    /\ readers[1].decision.val = AnswerOf(built, root, readers[1].input)
    /\ readers[2].pc = "match" /\ readers[2].cur = root
    /\ readers[2].decision.tag = "Node"

\* The scan of the node `cur` is under way or has just returned.
Scanning == kind \in ScanKinds /\ pc \in {"scan", "match"}

\* The entries of the scanned node that are true of the input.
TrueEntries == {k \in 1..Len(heap[cur].list) : EntryTest(heap[cur], k, input)}

\* C12: within one decide call of an ordered predicate-list node or decider
\* or of a membership decider the entries are tested in index order from
\* the first, every entry tested before the latest one was false (so
\* nothing is tested after an entry that was true), and the call returns
\* having tested exactly the entries up to the first true one, or all of
\* them when none is true; what it returns is what the loop taken as one
\* step returns.
C12_ShortCircuit ==
    Scanning =>
       /\ \A j \in 1..Len(evald) : evald[j] = j
       /\ \A j \in 1..(Len(evald) - 1) : j \notin TrueEntries
       /\ pc = "scan" => \A j \in 1..Len(evald) : j \notin TrueEntries
       /\ pc = "match" =>
             decision = IF kind = "PredicateListNode"
                        THEN Node_decide(heap[cur], input)
                        ELSE Decider_decide(heap[cur], input)
       /\ pc = "match" =>
             IF TrueEntries = {}
             THEN /\ Len(evald) = Len(heap[cur].list)
                  /\ decision = BranchView(heap[cur], heap[cur].default)
             ELSE /\ Len(evald) \in TrueEntries
                  /\ \A k \in TrueEntries : Len(evald) <= k
                  /\ decision = BranchView(heap[cur],
                                           heap[cur].list[Len(evald)][2])

\* A membership decider with two entries that both contain the input has
\* returned the first entry's branch having tested the first entry only.
C12_Witness ==
    /\ kind = "ContainsDecider" /\ pc = "match"
    /\ Len(heap[cur].list) = 2
    /\ TrueEntries = {1, 2}
    /\ evald = <<1>>
    /\ heap[cur].list[1][2] # heap[cur].list[2][2]
    /\ decision = IntoNode(heap[cur].list[1][2])

\* 1 if the branch b is Decision::Node of slot m, else 0.
PointsAt(b, m) == IF b.tag = "Node" /\ b.val = m THEN 1 ELSE 0

RECURSIVE ListRefs(_, _)
ListRefs(list, m) ==
    IF list = <<>> THEN 0
    ELSE PointsAt(Head(list)[2], m) + ListRefs(Tail(list), m)

\* The number of branches of the node that hold slot m.
Refs(node, m) ==
    CASE node.kind = "BinaryNode" ->
            PointsAt(node.on_true, m) + PointsAt(node.on_false, m)
      [] node.kind = "HashMapNode" ->
            Cardinality({e \in node.map : PointsAt(e[2], m) = 1})
               + PointsAt(node.default, m)
      [] OTHER -> ListRefs(node.list, m) + PointsAt(node.default, m)

RECURSIVE SumRefs(_, _)
SumRefs(n, m) ==
    IF n = 0 THEN 0 ELSE Refs(heap[n], m) + SumRefs(n - 1, m)

\* The number of parent branches of slot m over the whole heap.
ParentBranches(m) == SumRefs(Len(heap), m)

\* Who holds slot m: parent branches, a local of the builder, a Tree.
Owners(m) ==
    ParentBranches(m) + (IF m \in owned THEN 1 ELSE 0)
                      + (IF m \in trees THEN 1 ELSE 0)

Kids(n) == {m \in Slots : Refs(heap[n], m) > 0}

RECURSIVE Below(_)
Below(S) ==
    LET more == S \cup UNION {Kids(n) : n \in S}
    IN  IF more = S THEN S ELSE Below(more)

\* C13: after any sequence of constructor, Decision::node and add_* calls
\* every node is held by at most one of: a parent branch, a local of the
\* builder, a Tree; no node is below itself; and the nodes reachable from
\* the roots of two different trees are disjoint.
C13_AcyclicSinglyOwned ==
    /\ \A m \in Slots : Owners(m) <= 1
    /\ \A m \in Slots : m \notin Below(Kids(m))
    /\ \A t \in trees, u \in trees :
          t # u => Below({t}) \cap Below({u}) = {}

\* A tree of two levels: the child went in by add_node, has the one parent
\* branch, and is no longer the builder's.
C13_Witness ==
    \E t \in trees, m \in Slots :
       /\ m # t
       /\ Below({t}) = {t, m}
       /\ Len(calls[t].adds) >= 1
       /\ calls[t].adds[Len(calls[t].adds)][2] = DecisionNode(m)
       /\ ParentBranches(m) = 1
       /\ Owners(m) = 1
       /\ m \notin owned

=============================================================================
